---- MODULE Spec2Model ----
(***************************************************************************)
(* Key Cancellation Engine of quantum/process_keycode/                     *)
(* process_key_cancellation.c, as a state machine.                         *)
(*                                                                         *)
(* A key transition takes two steps: the call of                           *)
(* process_key_cancellation() (pc goes from "idle" to "handled"), then the *)
(* caller acting on the return value: it forwards the original event to    *)
(* the host report when the handler returned true (pc back to "idle").     *)
(*                                                                         *)
(* The engine is run twice in lockstep on the same events: once with the   *)
(* cancellation table `table` and once with `table2` (variables ending in *)
(* 2), which SpecReorder makes a reordering of `table`, so that statements *)
(* about the order of the table entries can be checked.                    *)
(*                                                                         *)
(* Spec and SpecReorder press three keys, with mode operations and hook    *)
(* vetoes in between; SpecSat rolls eleven keys on with both modes on;     *)
(* SpecFour presses four keys with the default hook and changes the modes  *)
(* only while no key is held;                                              *)
(* SpecTurbo runs keymaps/via/features/mouse_turbo_click.c, whose state is *)
(* separate from the engine's.                                             *)
(*                                                                         *)
(* Arrays of the C code are 0-based, sequences here are 1-based: C index   *)
(* i is position i+1.  buffer_keyreports[0..buffer_keyreport_count-1] is  *)
(* the sequence buffer_keyreports, buffer_keyreport_count is its Len; the  *)
(* code never reads an array slot at or above the count.                   *)
(***************************************************************************)
EXTENDS Integers, Sequences, FiniteSets, TLC

(***************************************************************************)
(* Keycodes.                                                               *)
(***************************************************************************)
KC_NO == 0
KC_A == 4
KC_B == 5
KC_C == 6
KC_D == 7
KC_EXSEL == 164
KC_LSFT == 225
\* the control keycodes are quantum keycodes: distinct, and outside the
\* basic range
QK_KEY_CANCELLATION_ON == 31888
QK_KEY_CANCELLATION_OFF == 31889
QK_KEY_CANCELLATION_TOGGLE == 31890
QK_KEY_CANCELLATION_RECOVERY_ON == 31891
QK_KEY_CANCELLATION_RECOVERY_OFF == 31892
QK_KEY_CANCELLATION_RECOVERY_TOGGLE == 31893

KEYREPORT_BUFFER_SIZE == 10

\* number of distinct press-list keys of the wide table (one more than the
\* buffer can hold)
NumSatKeys == 11

ControlKeycodes ==
    { QK_KEY_CANCELLATION_ON, QK_KEY_CANCELLATION_OFF, QK_KEY_CANCELLATION_TOGGLE,
      QK_KEY_CANCELLATION_RECOVERY_ON, QK_KEY_CANCELLATION_RECOVERY_OFF,
      QK_KEY_CANCELLATION_RECOVERY_TOGGLE }

\* the keys the environment presses and releases; every table leaves at
\* least one of them out of its press list
TrackedKeys == { KC_A, KC_B, KC_C }

\* keycodes outside the basic class that reach the handler
NonBasicKeycodes == { KC_LSFT }

SatKeys == KC_A .. (KC_A + NumSatKeys - 1)

IS_BASIC_KEYCODE(code) == code >= KC_A /\ code <= KC_EXSEL

Pair(p, u) == [press |-> p, unpress |-> u]

(***************************************************************************)
(* Cancellation tables (key_cancellation_count / key_cancellation_get).    *)
(***************************************************************************)
TableOneWay == << Pair(KC_A, KC_B) >>
TableMutual == << Pair(KC_A, KC_B), Pair(KC_B, KC_A) >>
TableTwoCancelOne == << Pair(KC_A, KC_B), Pair(KC_C, KC_B) >>
TableTwoCancelTracked == << Pair(KC_A, KC_B), Pair(KC_C, KC_B), Pair(KC_B, KC_D) >>
TableTriangle == << Pair(KC_A, KC_B), Pair(KC_C, KC_B), Pair(KC_B, KC_A), Pair(KC_B, KC_C) >>
TableChainDup == << Pair(KC_B, KC_A), Pair(KC_C, KC_B), Pair(KC_C, KC_A), Pair(KC_C, KC_B) >>

Tables ==
    { TableOneWay, TableMutual, TableTwoCancelOne, TableTwoCancelTracked,
      TableTriangle, TableChainDup }

\* every key cancels its predecessor, the first one cancels the last
TableWide ==
    [ i \in 1..NumSatKeys |->
        Pair(KC_A + i - 1, IF i = 1 THEN KC_A + NumSatKeys - 1 ELSE KC_A + i - 2) ]

\* reorderings of a table: the entries whose relative order changes share
\* neither their press nor their unpress value
Injective(f) == \A i, j \in DOMAIN f : f[i] = f[j] => i = j

ValidReorder(t, f) ==
    \A i, j \in 1..Len(t) :
        (i < j /\ f[i] > f[j]) =>
            /\ t[f[i]].press # t[f[j]].press
            /\ t[f[i]].unpress # t[f[j]].unpress

Reorderings(t) ==
    { [i \in 1..Len(t) |-> t[f[i]]] :
        f \in { g \in [1..Len(t) -> 1..Len(t)] : Injective(g) /\ ValidReorder(t, g) } }

VARIABLES
    table,              \* the cancellation table (fixed at build time)
    table2,             \* a reordering of it, used by the second engine
    keymap_config,      \* [key_cancellation_enable, key_cancellation_recovery_enable]
    buffer_keyreports,  \* the Hold Buffer, buffer_keyreports[0..count-1]
    buffer_keyreports2, \* the Hold Buffer of the second engine
    held,               \* the tracked keys physically held, in press order
    report,             \* the keys the host sees as held
    lastEv,             \* the event processed last: [keycode, pressed, allow]
    actions,            \* the del_key/add_key calls made for lastEv, in order
    actions2,           \* the same, second engine
    ret,                \* the value returned for lastEv
    ret2,               \* the same, second engine
    pc,                 \* "idle", or "handled": the handler has returned and
                        \* the caller has not yet acted on the return value
    hook_overridden,    \* the firmware overrides process_key_cancellation_user
    armed,              \* history: the held keys whose press went through the
                        \* admission filter, with no mode operation since
    buffer_keyreports_temp,
                        \* the snapshot as the call made for lastEv left it,
                        \* << >> when that call did not reach the memcpy.  The
                        \* array keeps its contents between calls, but every
                        \* read of it follows the memcpy of the same call, so
                        \* an older content is never observed
    eeprom,             \* the configuration word in persistent storage
    eeprom_writes,      \* the number of eeconfig_update_keymap calls made
                        \* for lastEv
    \* mouse_turbo_click.c
    turbo_enabled,      \* static bool turbo_enabled
    click_token,        \* static deferred_token click_token
    click_registered,   \* static bool click_registered
    deferred,           \* the tokens whose callback the deferred executor
                        \* holds
    click_host,         \* MOUSE_TURBO_CLICK_KEY is registered at the host
    click_log,          \* the last register_code16 / unregister_code16 calls
    turbo_key_down,     \* the turbo key is physically held
    turbo_ev,           \* the last event given to process_mouse_turbo_click
    turbo_ret           \* what it returned

vars == << table, table2, keymap_config, buffer_keyreports, buffer_keyreports2,
           held, report, lastEv, actions, actions2, ret, ret2, pc,
           hook_overridden, armed, buffer_keyreports_temp, eeprom,
           eeprom_writes, turbo_enabled, click_token, click_registered,
           deferred, click_host, click_log, turbo_key_down, turbo_ev,
           turbo_ret >>

engine_vars ==
    << table, table2, keymap_config, buffer_keyreports, buffer_keyreports2,
       held, report, lastEv, actions, actions2, ret, ret2, pc,
       hook_overridden, armed, buffer_keyreports_temp, eeprom, eeprom_writes >>

turbo_vars ==
    << turbo_enabled, click_token, click_registered, deferred, click_host,
       click_log, turbo_key_down, turbo_ev, turbo_ret >>

(***************************************************************************)
(* Mode control.                                                           *)
(***************************************************************************)
key_cancellation_is_enabled(cfg) == cfg.key_cancellation_enable

key_cancellation_enable(cfg) == [cfg EXCEPT !.key_cancellation_enable = TRUE]

key_cancellation_disable(cfg) == [cfg EXCEPT !.key_cancellation_enable = FALSE]

key_cancellation_toggle(cfg) ==
    [cfg EXCEPT !.key_cancellation_enable = ~cfg.key_cancellation_enable]

key_cancellation_recovery_is_enabled(cfg) ==
    cfg.key_cancellation_enable /\ cfg.key_cancellation_recovery_enable

key_cancellation_recovery_enable(cfg) ==
    [cfg EXCEPT !.key_cancellation_recovery_enable = TRUE]

key_cancellation_recovery_disable(cfg) ==
    [cfg EXCEPT !.key_cancellation_recovery_enable = FALSE]

key_cancellation_recovery_toggle(cfg) ==
    [cfg EXCEPT !.key_cancellation_recovery_enable = ~cfg.key_cancellation_recovery_enable]

\* eeconfig_update_keymap(keymap_config.raw): the words written to persistent
\* storage, in order
eeconfig_update_keymap(raw) == << raw >>

(***************************************************************************)
(* Hold Buffer.                                                            *)
(***************************************************************************)
key_cancellation_is_key_in_buffer(buf, keycode) ==
    \E i \in 1..Len(buf) : buf[i] = keycode

\* mutant: no capacity check
add_key_buffer_nocap(buf, keycode) ==
    IF key_cancellation_is_key_in_buffer(buf, keycode) THEN buf
    ELSE Append(buf, keycode)

\* mutant: the keycode is stored in front of the others
add_key_buffer_front(buf, keycode) ==
    IF key_cancellation_is_key_in_buffer(buf, keycode) THEN buf
    ELSE IF Len(buf) >= KEYREPORT_BUFFER_SIZE THEN buf
    ELSE << keycode >> \o buf

add_key_buffer(buf, keycode) ==
    IF key_cancellation_is_key_in_buffer(buf, keycode) THEN buf
    ELSE IF Len(buf) >= KEYREPORT_BUFFER_SIZE THEN buf
    ELSE Append(buf, keycode)

\* position of the first occurrence of keycode among buf[1..last], 0 if none
FirstIndex(buf, keycode, last) ==
    IF \E i \in 1..last : buf[i] = keycode
    THEN CHOOSE i \in 1..last :
            buf[i] = keycode /\ \A k \in 1..(i - 1) : buf[k] # keycode
    ELSE 0

\* mutant: the last entry is moved into the freed slot
del_key_buffer_swap(buf, keycode) ==
    LET i == FirstIndex(buf, keycode, Len(buf))
    IN  IF i = 0 THEN buf
        ELSE [k \in 1..(Len(buf) - 1) |-> IF k = i THEN buf[Len(buf)] ELSE buf[k]]

del_key_buffer(buf, keycode) ==
    LET i == FirstIndex(buf, keycode, Len(buf))
    IN  IF i = 0 THEN buf
        ELSE [k \in 1..(Len(buf) - 1) |-> IF k < i THEN buf[k] ELSE buf[k + 1]]

\* mutant: the loop stops one slot early
del_key_buffer_temp_short(temp, keycode, end_index) ==
    LET i == FirstIndex(temp, keycode, end_index - 1)
    IN  IF i = 0 THEN temp ELSE [temp EXCEPT ![i] = KC_NO]

\* end_index is the C argument: the C loop visits 0..end_index-1, which are
\* the positions 1..end_index
del_key_buffer_temp(temp, keycode, end_index) ==
    LET i == FirstIndex(temp, keycode, end_index)
    IN  IF i = 0 THEN temp ELSE [temp EXCEPT ![i] = KC_NO]

\* mutant: the loop returns false at the first entry that does not match
key_cancellation_is_key_in_press_list_first(tbl, keycode) ==
    Len(tbl) >= 1 /\ tbl[1].press = keycode

key_cancellation_is_key_in_press_list(tbl, keycode) ==
    \E i \in 1..Len(tbl) : tbl[i].press = keycode

(***************************************************************************)
(* Host report (action_util): the synthetic actions and the forwarding of  *)
(* the original event by the caller.                                       *)
(***************************************************************************)
DelKey(key) == [op |-> "del_key", key |-> key]

AddKey(key) == [op |-> "add_key", key |-> key]

del_key(rep, key) == rep \ {key}

add_key(rep, key) == rep \cup {key}

RECURSIVE ApplyActions(_, _)
ApplyActions(rep, acts) ==
    IF acts = << >> THEN rep
    ELSE ApplyActions(
            IF Head(acts).op = "del_key" THEN del_key(rep, Head(acts).key)
            ELSE add_key(rep, Head(acts).key),
            Tail(acts))

\* the caller goes on to register / unregister the keycode when the
\* handler returned true; only basic keycodes live in the report's key set
Forward(rep, keycode, pressed, forwarded) ==
    IF forwarded /\ IS_BASIC_KEYCODE(keycode)
    THEN IF pressed THEN add_key(rep, keycode) ELSE del_key(rep, keycode)
    ELSE rep

(***************************************************************************)
(* process_key_cancellation, piece by piece.                               *)
(***************************************************************************)
\* the switch on the press edge
ControlDispatch(keycode, cfg) ==
    CASE keycode = QK_KEY_CANCELLATION_ON -> key_cancellation_enable(cfg)
      [] keycode = QK_KEY_CANCELLATION_OFF -> key_cancellation_disable(cfg)
      [] keycode = QK_KEY_CANCELLATION_TOGGLE -> key_cancellation_toggle(cfg)
      [] keycode = QK_KEY_CANCELLATION_RECOVERY_ON -> key_cancellation_recovery_enable(cfg)
      [] keycode = QK_KEY_CANCELLATION_RECOVERY_OFF -> key_cancellation_recovery_disable(cfg)
      [] keycode = QK_KEY_CANCELLATION_RECOVERY_TOGGLE -> key_cancellation_recovery_toggle(cfg)
      [] OTHER -> cfg

\* mutant: the word is written before the flag is set
ControlWritesStale(keycode, cfg) == eeconfig_update_keymap(cfg)

\* the persistence writes of the mode operation the switch calls: each
\* operation writes the word once, after it has set its flag
ControlWrites(keycode, cfg) == eeconfig_update_keymap(ControlDispatch(keycode, cfg))

\* mutant: the switch is not guarded by record->event.pressed
ControlInterceptedBothEdges(keycode, pressed) ==
    keycode \in ControlKeycodes

\* mutant: the default case of the switch returns false
ControlInterceptedDefault(keycode, pressed) ==
    pressed

\* the switch is entered, and returns false, for a control keycode on the
\* press edge
ControlIntercepted(keycode, pressed) ==
    pressed /\ keycode \in ControlKeycodes

\* mutant: the hook is not consulted
AdmissionRejectsNoHook(keycode, allow, cfg) ==
    \/ ~cfg.key_cancellation_enable
    \/ ~IS_BASIC_KEYCODE(keycode)

\* mutant: the basic-keycode check is missing
AdmissionRejectsNoBasic(keycode, allow, cfg) ==
    \/ ~cfg.key_cancellation_enable
    \/ ~allow

\* the three early returns before the algorithm; allow is the value
\* process_key_cancellation_user returns when it is called
AdmissionRejects(keycode, allow, cfg) ==
    \/ ~cfg.key_cancellation_enable
    \/ ~IS_BASIC_KEYCODE(keycode)
    \/ ~allow

\* mutant: key up events are processed in every mode
KeyUpSkippedNever(pressed, cfg) == FALSE

\* key up events are not processed unless recovery is enabled
KeyUpSkipped(pressed, cfg) ==
    ~cfg.key_cancellation_recovery_enable /\ ~pressed

\* the Hold Buffer update of an admitted event
UpdateBuffer(tbl, cfg, buf, keycode, pressed) ==
    IF cfg.key_cancellation_recovery_enable
       /\ key_cancellation_is_key_in_press_list(tbl, keycode)
    THEN IF pressed THEN add_key_buffer(buf, keycode)
         ELSE del_key_buffer(buf, keycode)
    ELSE buf

\* nothing to reconcile
BufferEmptyReturn(cfg, buf) ==
    cfg.key_cancellation_recovery_enable /\ Len(buf) = 0

\* mutant: the loop stops at the first matching pair
PressPathFromFirstOnly(tbl, keycode, i) ==
    IF \E n \in i..Len(tbl) : tbl[n].press = keycode
    THEN << DelKey(tbl[CHOOSE n \in i..Len(tbl) :
                        /\ tbl[n].press = keycode
                        /\ \A m \in i..(n - 1) : tbl[m].press # keycode].unpress) >>
    ELSE << >>

\* press path: one del_key per pair whose press is the keycode, table order
RECURSIVE PressPathFrom(_, _, _)
PressPathFrom(tbl, keycode, i) ==
    IF i > Len(tbl) THEN << >>
    ELSE (IF keycode = tbl[i].press THEN << DelKey(tbl[i].unpress) >> ELSE << >>)
         \o PressPathFrom(tbl, keycode, i + 1)

\* mutant: del_key is given the press field
PressPathDelPress(tbl, keycode) ==
    [ n \in 1..Len(PressPathFrom(tbl, keycode, 1)) |-> DelKey(keycode) ]

PressPath(tbl, keycode) == PressPathFrom(tbl, keycode, 1)

\* mutant: the scan reads the Hold Buffer at position j, not the snapshot
RECURSIVE ScanPairsReadsBuffer(_, _, _, _, _)
ScanPairsReadsBuffer(tbl, buf, temp, j, i) ==
    IF i > Len(tbl) THEN temp
    ELSE LET after == { IF /\ tbl[i].press = buf[j]
                           /\ key_cancellation_is_key_in_buffer(buf, tbl[i].unpress)
                        THEN del_key_buffer_temp(temp, tbl[i].unpress, j - 1)
                        ELSE temp }
         IN  CHOOSE r \in { ScanPairsReadsBuffer(tbl, buf, t, j, i + 1) : t \in after } : TRUE

\* release path, inner loop over the table for snapshot position j.  The
\* snapshot after pair i is bound as the element of a singleton, so that it
\* is a value before the next iteration starts.
RECURSIVE ScanPairs(_, _, _, _, _)
ScanPairs(tbl, buf, temp, j, i) ==
    IF i > Len(tbl) THEN temp
    ELSE LET after == { IF /\ tbl[i].press = temp[j]
                           /\ key_cancellation_is_key_in_buffer(buf, tbl[i].unpress)
                        THEN del_key_buffer_temp(temp, tbl[i].unpress, j - 1)
                        ELSE temp }
         IN  CHOOSE r \in { ScanPairs(tbl, buf, t, j, i + 1) : t \in after } : TRUE

\* release path, outer loop from the last position down to the first
RECURSIVE ScanPositions(_, _, _, _)
ScanPositions(tbl, buf, temp, j) ==
    IF j < 1 THEN temp
    ELSE LET after == { ScanPairs(tbl, buf, temp, j, 1) }
         IN  CHOOSE r \in { ScanPositions(tbl, buf, t, j - 1) : t \in after } : TRUE

\* the snapshot (memcpy of the buffer) after the scan
ReleaseScan(tbl, buf) == ScanPositions(tbl, buf, buf, Len(buf))

\* mutant: every Hold Buffer entry is registered, cleared or not
RECURSIVE CompareFromAddAll(_, _, _)
CompareFromAddAll(buf, temp, i) ==
    IF i > Len(buf) THEN << >>
    ELSE << AddKey(buf[i]) >> \o CompareFromAddAll(buf, temp, i + 1)

\* release path, comparison of the buffer with the snapshot
\* mutant: the else branch (add_key) is missing
RECURSIVE CompareFromNoAdd(_, _, _)
CompareFromNoAdd(buf, temp, i) ==
    IF i > Len(buf) THEN << >>
    ELSE (IF buf[i] # temp[i] /\ temp[i] = KC_NO THEN << DelKey(buf[i]) >> ELSE << >>)
         \o CompareFromNoAdd(buf, temp, i + 1)

RECURSIVE CompareFrom(_, _, _)
CompareFrom(buf, temp, i) ==
    IF i > Len(buf) THEN << >>
    ELSE (IF buf[i] # temp[i]
          THEN (IF temp[i] = KC_NO THEN << DelKey(buf[i]) >> ELSE << >>)
          ELSE << AddKey(temp[i]) >>)
         \o CompareFrom(buf, temp, i + 1)

\* mutant: the comparison runs from the last position down to the first
ReleasePathReversed(tbl, buf) ==
    LET acts == CompareFrom(buf, ReleaseScan(tbl, buf), 1)
    IN  [ n \in 1..Len(acts) |-> acts[Len(acts) + 1 - n] ]

ReleasePath(tbl, buf) == CompareFrom(buf, ReleaseScan(tbl, buf), 1)

\* the whole handler: the configuration, the Hold Buffer, the synthetic
\* actions, the return value, the snapshot and the persistence writes it
\* leaves behind
process_key_cancellation(keycode, pressed, allow, tbl, cfg, buf) ==
    IF ControlIntercepted(keycode, pressed)
    THEN [cfg |-> ControlDispatch(keycode, cfg), buf |-> buf,
          actions |-> << >>, ret |-> FALSE, temp |-> << >>,
          writes |-> ControlWrites(keycode, cfg)]
    ELSE IF AdmissionRejects(keycode, allow, cfg)
    THEN [cfg |-> cfg, buf |-> buf, actions |-> << >>, ret |-> TRUE,
          temp |-> << >>, writes |-> << >>]
    ELSE IF KeyUpSkipped(pressed, cfg)
    THEN [cfg |-> cfg, buf |-> buf, actions |-> << >>, ret |-> TRUE,
          temp |-> << >>, writes |-> << >>]
    ELSE LET nbuf == UpdateBuffer(tbl, cfg, buf, keycode, pressed)
         IN  IF BufferEmptyReturn(cfg, nbuf)
             THEN [cfg |-> cfg, buf |-> nbuf, actions |-> << >>, ret |-> TRUE,
                   temp |-> << >>, writes |-> << >>]
             ELSE [cfg |-> cfg, buf |-> nbuf,
                   actions |-> IF pressed THEN PressPath(tbl, keycode)
                               ELSE ReleasePath(tbl, nbuf),
                   ret |-> TRUE,
                   temp |-> IF pressed THEN nbuf ELSE ReleaseScan(tbl, nbuf),
                   writes |-> << >>]

(***************************************************************************)
(* Mouse Turbo Click (keymaps/via/features/mouse_turbo_click.c).  The      *)
(* statics of the file are gathered in a record st with the fields         *)
(* turbo_enabled, click_token, click_registered, and with what the calls   *)
(* to the deferred executor and to register_code16 / unregister_code16     *)
(* leave behind: deferred, click_host, click_log.                          *)
(***************************************************************************)
INVALID_DEFERRED_TOKEN == 0

\* the keycode of the turbo key in the keymap (a custom keycode, outside
\* the basic range)
TURBO_CLICK_KEYCODE == 32256

\* number of distinct valid tokens defer_exec hands out
NumTokens == 2

\* number of register / unregister calls the log keeps
LogLen == 4

Tokens == 1..NumTokens

\* the log keeps the last LogLen calls
Logged(log, call) ==
    LET all == Append(log, call)
    IN  IF Len(all) <= LogLen THEN all
        ELSE SubSeq(all, Len(all) - LogLen + 1, Len(all))

\* register_code16(MOUSE_TURBO_CLICK_KEY)
register_code16(st) ==
    [st EXCEPT !.click_host = TRUE, !.click_log = Logged(@, "register")]

\* unregister_code16(MOUSE_TURBO_CLICK_KEY)
unregister_code16(st) ==
    [st EXCEPT !.click_host = FALSE, !.click_log = Logged(@, "unregister")]

turbo_click_callback(st) ==
    IF st.click_registered
    THEN [unregister_code16(st) EXCEPT !.click_registered = FALSE]
    ELSE register_code16([st EXCEPT !.click_registered = TRUE])

\* what defer_exec can return: a valid token that is not in use, or
\* INVALID_DEFERRED_TOKEN when it fails
defer_exec(st) == (Tokens \ st.deferred) \cup { INVALID_DEFERRED_TOKEN }

cancel_deferred_exec(st, token) == [st EXCEPT !.deferred = @ \ { token }]

\* tok is the value defer_exec returns when it is called
turbo_click_start(st, tok) ==
    IF st.click_token = INVALID_DEFERRED_TOKEN
    THEN LET s1 == turbo_click_callback(st)
         IN  [s1 EXCEPT !.click_token = tok,
                        !.deferred = IF tok = INVALID_DEFERRED_TOKEN THEN @
                                     ELSE @ \cup { tok }]
    ELSE st

turbo_click_stop(st) ==
    IF st.click_token # INVALID_DEFERRED_TOKEN
    THEN LET s1 == [cancel_deferred_exec(st, st.click_token)
                       EXCEPT !.click_token = INVALID_DEFERRED_TOKEN]
         IN  IF s1.click_registered
             THEN [unregister_code16(s1) EXCEPT !.click_registered = FALSE]
             ELSE s1
    ELSE st

process_mouse_turbo_click(keycode, pressed, turbo_click_keycode, st, tok) ==
    IF keycode = turbo_click_keycode
    THEN [st |-> IF pressed
                 THEN LET s1 == [st EXCEPT !.turbo_enabled = ~@]
                      IN  IF s1.turbo_enabled THEN turbo_click_start(s1, tok)
                          ELSE turbo_click_stop(s1)
                 ELSE st,
          ret |-> FALSE]
    ELSE [st |-> st, ret |-> TRUE]

TurboState ==
    [turbo_enabled |-> turbo_enabled, click_token |-> click_token,
     click_registered |-> click_registered, deferred |-> deferred,
     click_host |-> click_host, click_log |-> click_log]

NoTurboEvent == [keycode |-> KC_NO, pressed |-> FALSE]

TurboInit ==
    /\ turbo_enabled = FALSE
    /\ click_token = INVALID_DEFERRED_TOKEN
    /\ click_registered = FALSE
    /\ deferred = {}
    /\ click_host = FALSE
    /\ click_log = << >>
    /\ turbo_key_down = FALSE
    /\ turbo_ev = NoTurboEvent
    /\ turbo_ret = TRUE

(***************************************************************************)
(* The state machine.                                                      *)
(***************************************************************************)
NoEvent == [keycode |-> KC_NO, pressed |-> FALSE, allow |-> TRUE]

Configs ==
    [key_cancellation_enable : BOOLEAN, key_cancellation_recovery_enable : BOOLEAN]

InitRest ==
    /\ buffer_keyreports = << >>
    /\ buffer_keyreports2 = << >>
    /\ held = << >>
    /\ report = {}
    /\ lastEv = NoEvent
    /\ actions = << >>
    /\ actions2 = << >>
    /\ ret = TRUE
    /\ ret2 = TRUE
    /\ pc = "idle"
    /\ armed = {}
    /\ buffer_keyreports_temp = << >>
    /\ eeprom = keymap_config
    /\ eeprom_writes = 0
    /\ TurboInit

Init ==
    /\ table \in Tables
    /\ table2 = table
    /\ keymap_config \in Configs
    /\ hook_overridden \in BOOLEAN
    /\ InitRest

\* the history variable: a press is recorded when cancellation is enabled,
\* the keycode is basic and the hook allows; a release removes the key; a
\* mode operation forgets every key
ArmedAfter(keycode, pressed, allow) ==
    IF keycode \in ControlKeycodes
    THEN (IF pressed THEN {} ELSE armed)
    ELSE IF ~pressed THEN armed \ {keycode}
    ELSE IF /\ keymap_config.key_cancellation_enable
            /\ keycode >= KC_A /\ keycode <= KC_EXSEL
            /\ allow
         THEN armed \cup {keycode}
         ELSE armed

\* one call of the handler in both engines; the synthetic actions act on
\* the report at once
Handle(keycode, pressed, allow) ==
    /\ pc = "idle"
    /\ \E r1 \in { process_key_cancellation(keycode, pressed, allow, table,
                                         keymap_config, buffer_keyreports) },
       r2 \in { process_key_cancellation(keycode, pressed, allow, table2,
                                         keymap_config, buffer_keyreports2) } :
        /\ pc' = "handled"
        /\ keymap_config' = r1.cfg
        /\ buffer_keyreports' = r1.buf
        /\ buffer_keyreports2' = r2.buf
        /\ actions' = r1.actions
        /\ actions2' = r2.actions
        /\ ret' = r1.ret
        /\ ret2' = r2.ret
        /\ report' = ApplyActions(report, r1.actions)
        /\ lastEv' = [keycode |-> keycode, pressed |-> pressed, allow |-> allow]
        /\ armed' = ArmedAfter(keycode, pressed, allow)
        /\ buffer_keyreports_temp' = r1.temp
        /\ eeprom' = IF r1.writes = << >> THEN eeprom
                      ELSE r1.writes[Len(r1.writes)]
        /\ eeprom_writes' = Len(r1.writes)
        /\ UNCHANGED << table, table2, hook_overridden >>
        /\ UNCHANGED turbo_vars

IsHeld(k) == \E i \in 1..Len(held) : held[i] = k

\* what process_key_cancellation_user can return: the weak default returns
\* true, an override may return either value
process_key_cancellation_user ==
    IF hook_overridden THEN BOOLEAN ELSE { TRUE }

PressKey ==
    \E k \in TrackedKeys, allow \in process_key_cancellation_user :
        /\ ~IsHeld(k)
        /\ Handle(k, TRUE, allow)
        /\ held' = Append(held, k)

ReleaseKey ==
    \E k \in TrackedKeys, allow \in process_key_cancellation_user :
        /\ IsHeld(k)
        /\ Handle(k, FALSE, allow)
        /\ held' = SelectSeq(held, LAMBDA x : x # k)

\* a key outside the basic class; the engine keeps no state for it
NonBasicEvent ==
    \E k \in NonBasicKeycodes, pressed \in BOOLEAN,
       allow \in process_key_cancellation_user :
        /\ Handle(k, pressed, allow)
        /\ UNCHANGED held

ControlPress ==
    \E k \in ControlKeycodes :
        /\ Handle(k, TRUE, TRUE)
        /\ UNCHANGED held

ControlRelease ==
    \E k \in ControlKeycodes :
        /\ Handle(k, FALSE, TRUE)
        /\ UNCHANGED held

\* the report the host receives for the event just handled
ReportAfter == Forward(report, lastEv.keycode, lastEv.pressed, ret)

\* the caller acts on the return value and the report goes to the host
SendToHost ==
    /\ pc = "handled"
    /\ pc' = "idle"
    /\ report' = ReportAfter
    /\ lastEv' = NoEvent
    /\ actions' = << >>
    /\ actions2' = << >>
    /\ ret' = TRUE
    /\ ret2' = TRUE
    /\ buffer_keyreports_temp' = << >>
    /\ eeprom_writes' = 0
    /\ UNCHANGED << table, table2, keymap_config, buffer_keyreports,
                    buffer_keyreports2, held, hook_overridden, armed, eeprom >>
    /\ UNCHANGED turbo_vars

Next ==
    \/ PressKey
    \/ ReleaseKey
    \/ NonBasicEvent
    \/ ControlPress
    \/ ControlRelease
    \/ SendToHost

Spec == Init /\ [][Next]_vars

(***************************************************************************)
(* Reordered tables: the second engine runs on a reordering of the table,  *)
(* the events are those of Spec.                                           *)
(***************************************************************************)
InitReorder ==
    /\ table \in Tables
    /\ table2 \in Reorderings(table)
    /\ keymap_config \in Configs
    /\ hook_overridden \in BOOLEAN
    /\ InitRest

SpecReorder == InitReorder /\ [][Next]_vars

(***************************************************************************)
(* Saturation: the wide table, both modes on, keys rolled on in ascending  *)
(* order and released in any order.                                        *)
(***************************************************************************)
InitSat ==
    /\ table = TableWide
    /\ table2 = TableWide
    /\ keymap_config = [key_cancellation_enable |-> TRUE,
                        key_cancellation_recovery_enable |-> TRUE]
    /\ hook_overridden = FALSE
    /\ InitRest

PressRolling ==
    \E k \in SatKeys :
        /\ \A i \in 1..Len(held) : held[i] < k
        /\ Handle(k, TRUE, TRUE)
        /\ held' = Append(held, k)

ReleaseRolling ==
    \E k \in SatKeys :
        /\ IsHeld(k)
        /\ Handle(k, FALSE, TRUE)
        /\ held' = SelectSeq(held, LAMBDA x : x # k)

NextSat == PressRolling \/ ReleaseRolling \/ SendToHost

SpecSat == InitSat /\ [][NextSat]_vars

(***************************************************************************)
(* Four keys, pressed and released in any order, default hook; the mode    *)
(* flags change only while no key is held.  The tables are a chain, a      *)
(* table with a self-pair, two opposite pairs (SOCD), a symmetric path     *)
(* over the four keys, and a table with duplicate and multiple targets.    *)
(***************************************************************************)
FourKeys == { KC_A, KC_B, KC_C, KC_D }

TableChain == << Pair(KC_B, KC_A), Pair(KC_C, KC_B), Pair(KC_D, KC_C) >>
TableSelf == << Pair(KC_A, KC_A), Pair(KC_A, KC_B), Pair(KC_B, KC_A) >>
TableSocd ==
    << Pair(KC_A, KC_B), Pair(KC_B, KC_A), Pair(KC_C, KC_D), Pair(KC_D, KC_C) >>
TablePath ==
    << Pair(KC_A, KC_B), Pair(KC_B, KC_A), Pair(KC_B, KC_C), Pair(KC_C, KC_B),
       Pair(KC_C, KC_D), Pair(KC_D, KC_C) >>
TableMultiTarget ==
    << Pair(KC_A, KC_B), Pair(KC_C, KC_D), Pair(KC_A, KC_C), Pair(KC_A, KC_B),
       Pair(KC_B, KC_A) >>

TablesFour == { TableChain, TableSelf, TableSocd, TablePath, TableMultiTarget }

InitFour ==
    /\ table \in TablesFour
    /\ table2 = table
    /\ keymap_config \in Configs
    /\ hook_overridden = FALSE
    /\ InitRest

PressAny ==
    \E k \in FourKeys :
        /\ ~IsHeld(k)
        /\ Handle(k, TRUE, TRUE)
        /\ held' = Append(held, k)

ReleaseAny ==
    \E k \in FourKeys :
        /\ IsHeld(k)
        /\ Handle(k, FALSE, TRUE)
        /\ held' = SelectSeq(held, LAMBDA x : x # k)

ControlPressAllUp ==
    \E k \in ControlKeycodes :
        /\ held = << >>
        /\ Handle(k, TRUE, TRUE)
        /\ UNCHANGED held

NextFour == PressAny \/ ReleaseAny \/ ControlPressAllUp \/ SendToHost

SpecFour == InitFour /\ [][NextFour]_vars

(***************************************************************************)
(* Mouse Turbo Click as a state machine: the turbo key and another key are *)
(* pressed and released, and the deferred executor runs the callback of a  *)
(* token it holds.  The key cancellation engine is idle.                   *)
(***************************************************************************)
InitTurbo ==
    /\ table = TableOneWay
    /\ table2 = table
    /\ keymap_config = [key_cancellation_enable |-> FALSE,
                        key_cancellation_recovery_enable |-> FALSE]
    /\ hook_overridden = FALSE
    /\ InitRest

\* one call of process_mouse_turbo_click
TurboHandle(keycode, pressed, tok) ==
    \E r \in { process_mouse_turbo_click(keycode, pressed, TURBO_CLICK_KEYCODE,
                                         TurboState, tok) } :
        /\ turbo_enabled' = r.st.turbo_enabled
        /\ click_token' = r.st.click_token
        /\ click_registered' = r.st.click_registered
        /\ deferred' = r.st.deferred
        /\ click_host' = r.st.click_host
        /\ click_log' = r.st.click_log
        /\ turbo_ev' = [keycode |-> keycode, pressed |-> pressed]
        /\ turbo_ret' = r.ret
        /\ UNCHANGED engine_vars

TurboKeyPress ==
    \E tok \in defer_exec(TurboState) :
        /\ ~turbo_key_down
        /\ turbo_key_down' = TRUE
        /\ TurboHandle(TURBO_CLICK_KEYCODE, TRUE, tok)

TurboKeyRelease ==
    /\ turbo_key_down
    /\ turbo_key_down' = FALSE
    /\ TurboHandle(TURBO_CLICK_KEYCODE, FALSE, INVALID_DEFERRED_TOKEN)

OtherKeyEvent ==
    \E k \in { KC_A, KC_LSFT }, pressed \in BOOLEAN :
        /\ UNCHANGED turbo_key_down
        /\ TurboHandle(k, pressed, INVALID_DEFERRED_TOKEN)

\* the deferred executor runs the callback of a token it holds; the
\* callback returns a delay that is not 0, so the token stays
DeferredCallback ==
    \E t \in deferred :
        \E s \in { turbo_click_callback(TurboState) } :
            /\ click_registered' = s.click_registered
            /\ click_host' = s.click_host
            /\ click_log' = s.click_log
            /\ UNCHANGED << turbo_enabled, click_token, deferred, turbo_key_down,
                            turbo_ev, turbo_ret >>
            /\ UNCHANGED engine_vars

NextTurbo == TurboKeyPress \/ TurboKeyRelease \/ OtherKeyEvent \/ DeferredCallback

SpecTurbo == InitTurbo /\ [][NextTurbo]_vars

(***************************************************************************)
(* Vocabulary of the properties.                                           *)
(***************************************************************************)
Handled == pc = "handled"

BufferSet == { buffer_keyreports[i] : i \in 1..Len(buffer_keyreports) }

ActionSet == { actions[i] : i \in 1..Len(actions) }

PressFields == { table[i].press : i \in 1..Len(table) }

\* the table says: while k is asserted, b must not be reported
Cancels(k, b) == \E i \in 1..Len(table) : table[i].press = k /\ table[i].unpress = b

BothModesOn ==
    /\ keymap_config.key_cancellation_enable
    /\ keymap_config.key_cancellation_recovery_enable

\* the event just handled is no control keycode and went through the
\* admission filter (a non-control event leaves the mode flags alone)
AdmittedEv ==
    /\ Handled
    /\ lastEv.keycode \notin ControlKeycodes
    /\ keymap_config.key_cancellation_enable
    /\ lastEv.keycode \in KC_A..KC_EXSEL
    /\ lastEv.allow

AdmittedPress == AdmittedEv /\ lastEv.pressed

AdmittedRelease == AdmittedEv /\ ~lastEv.pressed

\* the event just handled is a release that ran the reconciliation pass
PassMade ==
    /\ AdmittedRelease
    /\ keymap_config.key_cancellation_recovery_enable
    /\ Len(buffer_keyreports) > 0

(***************************************************************************)
(* C1 (as amended).  With cancellation enabled and the hook allowing, for  *)
(* every pair (A,B) with A # B: right after the press of A has been        *)
(* processed and forwarded, the host's held-key set contains A and does    *)
(* not contain B.                                                          *)
(***************************************************************************)
C1_PressReleasesOpposite ==
    AdmittedPress =>
        \A i \in 1..Len(table) :
            (table[i].press = lastEv.keycode /\ table[i].unpress # lastEv.keycode) =>
                /\ lastEv.keycode \in ReportAfter
                /\ table[i].unpress \notin ReportAfter

\* A is pressed while B is physically held: B is released at the host
C1_Witness ==
    /\ AdmittedPress
    /\ lastEv.keycode = KC_A
    /\ Cancels(KC_A, KC_B)
    /\ IsHeld(KC_B)
    /\ DelKey(KC_B) \in ActionSet
    /\ ReportAfter = { KC_A }

\* C1 as claimed (with the default hook): from the press of A with
\* cancellation enabled until the release of A, the host's held-key set
\* never contains both A and B after a key event
C1_NoDoubleHold ==
    (Handled /\ keymap_config.key_cancellation_enable /\ ~hook_overridden) =>
        \A i \in 1..Len(table) :
            (table[i].press \in armed /\ table[i].unpress # table[i].press) =>
                ~(table[i].press \in ReportAfter /\ table[i].unpress \in ReportAfter)

(***************************************************************************)
(* C2 (as amended).  With both modes on and a pair (A,B), the release of A *)
(* while B is physically held emits add_key(B) when B is in the Hold       *)
(* Buffer (B is itself the press field of some pair and was inserted) and  *)
(* no Hold Buffer entry cancels B; when B is the press field of no pair,   *)
(* the release of A emits no add_key(B).                                   *)
(***************************************************************************)
C2_RecoveryOfTrackedKey ==
    (AdmittedRelease /\ BothModesOn) =>
        \A i \in 1..Len(table) :
            (/\ table[i].press = lastEv.keycode
             /\ table[i].unpress # lastEv.keycode
             /\ IsHeld(table[i].unpress)) =>
                /\ (/\ table[i].unpress \in BufferSet
                    /\ \A k \in BufferSet \cup { KC_NO } : ~Cancels(k, table[i].unpress))
                        => AddKey(table[i].unpress) \in ActionSet
                /\ table[i].unpress \notin PressFields
                        => AddKey(table[i].unpress) \notin ActionSet

\* press(A), press(B), release(A) with B tracked: B is registered again
C2_Witness ==
    /\ AdmittedRelease /\ BothModesOn
    /\ lastEv.keycode = KC_A
    /\ Cancels(KC_A, KC_B)
    /\ held = << KC_B >>
    /\ armed = { KC_B }
    /\ buffer_keyreports = << KC_B >>
    /\ actions = << AddKey(KC_B) >>

\* C2 as claimed: press(A), press(B), release(A) with any pair (A,B)
C2_RecoveryAlways ==
    [][ (/\ pc = "idle" /\ BothModesOn
         /\ held = << KC_A, KC_B >>
         /\ armed = { KC_A, KC_B }
         /\ Cancels(KC_A, KC_B)
         /\ pc' = "handled"
         /\ lastEv' = [keycode |-> KC_A, pressed |-> FALSE, allow |-> TRUE])
        => \E n \in 1..Len(actions') : actions'[n] = AddKey(KC_B) ]_vars

(***************************************************************************)
(* C3 (as amended).  With both modes on, during the reconciliation pass of *)
(* a release: a Hold Buffer entry B that is followed in the buffer (was    *)
(* pressed before) by an entry C which cancels B, and which no later entry *)
(* cancels, gets del_key(B) and no add_key(B); an entry that no Hold       *)
(* Buffer entry cancels gets add_key.  So after press(B), press(A),        *)
(* press(C) the release of A does not recover B, and the release of C      *)
(* does.                                                                   *)
(***************************************************************************)
C3_NoSpuriousRecovery ==
    (AdmittedRelease /\ BothModesOn) =>
        \A p \in 1..Len(buffer_keyreports) :
            /\ (\E q \in (p + 1)..Len(buffer_keyreports) :
                    /\ Cancels(buffer_keyreports[q], buffer_keyreports[p])
                    /\ \A r \in (q + 1)..Len(buffer_keyreports) :
                            ~Cancels(buffer_keyreports[r], buffer_keyreports[q]))
                => /\ AddKey(buffer_keyreports[p]) \notin ActionSet
                   /\ DelKey(buffer_keyreports[p]) \in ActionSet
            /\ (\A k \in BufferSet \cup { KC_NO } : ~Cancels(k, buffer_keyreports[p]))
                => AddKey(buffer_keyreports[p]) \in ActionSet

\* B, then C, held and tracked; A, which also cancels B, is released
C3_Witness ==
    /\ AdmittedRelease /\ BothModesOn
    /\ lastEv.keycode = KC_A
    /\ Cancels(KC_A, KC_B) /\ Cancels(KC_C, KC_B)
    /\ held = << KC_B, KC_C >>
    /\ armed = { KC_B, KC_C }
    /\ buffer_keyreports = << KC_B, KC_C >>
    /\ DelKey(KC_B) \in ActionSet
    /\ AddKey(KC_B) \notin ActionSet

\* C3 as claimed: press(A), press(C), press(B), release(A) emits no
\* add_key(B)
C3_NoRecoveryWhileOtherHeld ==
    [][ (/\ pc = "idle" /\ BothModesOn
         /\ held = << KC_A, KC_C, KC_B >>
         /\ armed = { KC_A, KC_B, KC_C }
         /\ Cancels(KC_A, KC_B) /\ Cancels(KC_C, KC_B)
         /\ pc' = "handled"
         /\ lastEv' = [keycode |-> KC_A, pressed |-> FALSE, allow |-> TRUE])
        => \A n \in 1..Len(actions') : actions'[n] # AddKey(KC_B) ]_vars

(***************************************************************************)
(* C4.  After any sequence of key events and mode operations (with the     *)
(* default hook), every keycode in the Hold Buffer is physically held and  *)
(* is the press field of at least one table pair.                          *)
(***************************************************************************)
C4_BufferOnlyHeld ==
    ~hook_overridden =>
    \A i \in 1..Len(buffer_keyreports) :
        /\ IsHeld(buffer_keyreports[i])
        /\ buffer_keyreports[i] \in PressFields

(***************************************************************************)
(* C5.  An event of a non-control keycode that the admission filter        *)
(* rejects (cancellation disabled, keycode not basic, or hook returning    *)
(* false) returns true, leaves the Hold Buffer and the mode flags as they  *)
(* were and emits no synthetic action.                                     *)
(***************************************************************************)
C5_RejectedEventNoEffect ==
    [][ (/\ pc = "idle" /\ pc' = "handled"
         /\ lastEv'.keycode \notin ControlKeycodes
         /\ \/ ~keymap_config.key_cancellation_enable
            \/ lastEv'.keycode \notin KC_A..KC_EXSEL
            \/ ~lastEv'.allow)
        => /\ ret' = TRUE
           /\ buffer_keyreports' = buffer_keyreports
           /\ actions' = << >>
           /\ report' = report
           /\ keymap_config' = keymap_config ]_vars

\* the hook vetoes the release of a tracked key while another is tracked
C5_Witness ==
    /\ Handled
    /\ BothModesOn
    /\ ~lastEv.allow /\ ~lastEv.pressed
    /\ lastEv.keycode \in BufferSet
    /\ Len(buffer_keyreports) >= 2
    /\ actions = << >>
    /\ ret = TRUE

(***************************************************************************)
(* C6.  The Hold Buffer count stays within 0..KEYREPORT_BUFFER_SIZE, and a *)
(* press handled while the buffer holds KEYREPORT_BUFFER_SIZE entries      *)
(* leaves the entries and their order as they were.                        *)
(***************************************************************************)
C6_BufferSaturation ==
    [][ /\ Len(buffer_keyreports') \in 0..KEYREPORT_BUFFER_SIZE
        /\ (/\ pc = "idle" /\ pc' = "handled"
            /\ lastEv'.pressed
            /\ Len(buffer_keyreports) = KEYREPORT_BUFFER_SIZE)
           => buffer_keyreports' = buffer_keyreports ]_vars

\* an eleventh press-list key is pressed while ten are tracked
C6_Witness ==
    /\ AdmittedPress
    /\ lastEv.keycode \in PressFields
    /\ lastEv.keycode \notin BufferSet
    /\ Len(held) = KEYREPORT_BUFFER_SIZE + 1
    /\ buffer_keyreports = SubSeq(held, 1, KEYREPORT_BUFFER_SIZE)

(***************************************************************************)
(* C7 (as amended).  For each of the six control keycodes the handler      *)
(* returns false on the press edge, in every mode state; on the release    *)
(* edge it returns true, changes neither the mode flags nor the Hold       *)
(* Buffer and emits no synthetic action.                                   *)
(***************************************************************************)
C7_ControlReturn ==
    [][ (/\ pc = "idle" /\ pc' = "handled"
         /\ lastEv'.keycode \in ControlKeycodes)
        => IF lastEv'.pressed
           THEN ret' = FALSE
           ELSE /\ ret' = TRUE
                /\ keymap_config' = keymap_config
                /\ buffer_keyreports' = buffer_keyreports
                /\ actions' = << >> ]_vars

\* the release edge of a control keycode, both modes on, keys tracked
C7_Witness ==
    /\ Handled
    /\ lastEv.keycode \in ControlKeycodes
    /\ ~lastEv.pressed
    /\ BothModesOn
    /\ Len(buffer_keyreports) >= 1
    /\ ret = TRUE

\* C7 as claimed: false on the press edge and on the release edge
C7_ControlNeverForwarded ==
    (Handled /\ lastEv.keycode \in ControlKeycodes) => ret = FALSE

(***************************************************************************)
(* C8.  In every mode state an event of a control keycode, press or        *)
(* release, leaves the Hold Buffer as it was, never puts a control keycode *)
(* in it and emits no synthetic del_key / add_key.                         *)
(***************************************************************************)
C8_ControlIsolation ==
    [][ (/\ pc = "idle" /\ pc' = "handled"
         /\ lastEv'.keycode \in ControlKeycodes)
        => /\ buffer_keyreports' = buffer_keyreports
           /\ \A i \in 1..Len(buffer_keyreports') :
                  buffer_keyreports'[i] \notin ControlKeycodes
           /\ actions' = << >>
           /\ report' = report ]_vars

\* the cancellation toggle is pressed while two keys are tracked
C8_Witness ==
    /\ Handled
    /\ lastEv.keycode = QK_KEY_CANCELLATION_TOGGLE
    /\ lastEv.pressed
    /\ Len(buffer_keyreports) >= 2
    /\ Len(held) >= 2
    /\ actions = << >>

(***************************************************************************)
(* C9.  For every keycode that is not a control keycode the handler        *)
(* returns true, on press and on release, in every mode and buffer state.  *)
(***************************************************************************)
C9_NonControlForwarded ==
    (Handled /\ lastEv.keycode \notin ControlKeycodes) => ret = TRUE

\* a release that ran the reconciliation pass and emitted two corrections
C9_Witness ==
    /\ AdmittedRelease
    /\ BothModesOn
    /\ Len(actions) >= 2
    /\ ret = TRUE

(***************************************************************************)
(* C10.  Two tables that are reorderings of each other, the reordered      *)
(* entries sharing no press and no unpress value, give the same synthetic  *)
(* actions, the same return value and the same Hold Buffer after every     *)
(* event of the same event sequence.                                       *)
(***************************************************************************)
C10_OrderIndependence ==
    /\ buffer_keyreports2 = buffer_keyreports
    /\ actions2 = actions
    /\ ret2 = ret

\* a reconciliation pass with a del_key and an add_key under two orders
C10_Witness ==
    /\ table2 # table
    /\ AdmittedRelease
    /\ BothModesOn
    /\ \E k \in BufferSet : DelKey(k) \in ActionSet
    /\ \E k \in BufferSet : AddKey(k) \in ActionSet
    /\ actions2 = actions

(***************************************************************************)
(* C11.  Each of the six mode operations sets its in-memory flag and       *)
(* writes the whole configuration word to persistent storage exactly once, *)
(* so the persisted flags equal the in-memory flags after every event; an  *)
(* operation on one flag leaves the other flag as it was; a toggle inverts *)
(* its flag, so two toggles restore it; no other event writes.             *)
(***************************************************************************)
C11_ModePersistence ==
    [][ /\ eeprom' = keymap_config'
        /\ (/\ pc = "idle" /\ pc' = "handled"
            /\ lastEv'.pressed
            /\ lastEv'.keycode \in ControlKeycodes)
           => /\ eeprom_writes' = 1
              /\ lastEv'.keycode \in { QK_KEY_CANCELLATION_ON, QK_KEY_CANCELLATION_OFF,
                                       QK_KEY_CANCELLATION_TOGGLE }
                    => /\ keymap_config'.key_cancellation_recovery_enable
                            = keymap_config.key_cancellation_recovery_enable
                       /\ keymap_config'.key_cancellation_enable
                            = CASE lastEv'.keycode = QK_KEY_CANCELLATION_ON -> TRUE
                                [] lastEv'.keycode = QK_KEY_CANCELLATION_OFF -> FALSE
                                [] OTHER -> ~keymap_config.key_cancellation_enable
              /\ lastEv'.keycode \in { QK_KEY_CANCELLATION_RECOVERY_ON,
                                       QK_KEY_CANCELLATION_RECOVERY_OFF,
                                       QK_KEY_CANCELLATION_RECOVERY_TOGGLE }
                    => /\ keymap_config'.key_cancellation_enable
                            = keymap_config.key_cancellation_enable
                       /\ keymap_config'.key_cancellation_recovery_enable
                            = CASE lastEv'.keycode = QK_KEY_CANCELLATION_RECOVERY_ON -> TRUE
                                [] lastEv'.keycode = QK_KEY_CANCELLATION_RECOVERY_OFF -> FALSE
                                [] OTHER -> ~keymap_config.key_cancellation_recovery_enable
        /\ (/\ pc = "idle" /\ pc' = "handled"
            /\ ~(lastEv'.pressed /\ lastEv'.keycode \in ControlKeycodes))
           => /\ eeprom_writes' = 0
              /\ eeprom' = eeprom ]_vars

\* the recovery toggle has switched recovery off while a key is tracked
C11_Witness ==
    /\ Handled
    /\ lastEv.keycode = QK_KEY_CANCELLATION_RECOVERY_TOGGLE
    /\ lastEv.pressed
    /\ eeprom_writes = 1
    /\ eeprom = [key_cancellation_enable |-> TRUE,
                 key_cancellation_recovery_enable |-> FALSE]
    /\ Len(buffer_keyreports) >= 1

(***************************************************************************)
(* C12.  After every key event, under any interleaving of presses,         *)
(* releases and mode operations (with the default hook), every keycode the *)
(* host sees as held is physically held, and the release path emits no     *)
(* add_key for a keycode that is not physically held; so the host's set is *)
(* empty once every key is released.                                       *)
(***************************************************************************)
C12_NoStuckKeys ==
    ~hook_overridden =>
        /\ \A k \in ReportAfter : IsHeld(k)
        /\ \A n \in 1..Len(actions) :
              actions[n].op = "add_key" => IsHeld(actions[n].key)

(***************************************************************************)
(* C13 (as amended).  In a reconciliation pass the snapshot is scanned     *)
(* from the last position down to the first; a position j that still holds *)
(* its keycode k when it is visited clears, for every pair (k, unpress)    *)
(* with unpress in the Hold Buffer, the snapshot entry equal to unpress    *)
(* where it occurs strictly before position j.  A position at or after j   *)
(* is never cleared by k, and a position that was cleared before its visit *)
(* clears nothing.  So the snapshot after the scan is: position p is 0     *)
(* when a later position that is not cleared cancels its keycode, and the  *)
(* Hold Buffer's keycode otherwise.                                        *)
(***************************************************************************)
C13_ScanStrictlyBefore ==
    PassMade =>
        /\ Len(buffer_keyreports_temp) = Len(buffer_keyreports)
        /\ \A p \in 1..Len(buffer_keyreports) :
              buffer_keyreports_temp[p] =
                  IF \E q \in (p + 1)..Len(buffer_keyreports) :
                        /\ buffer_keyreports_temp[q] = buffer_keyreports[q]
                        /\ Cancels(buffer_keyreports[q], buffer_keyreports[p])
                  THEN KC_NO
                  ELSE buffer_keyreports[p]

\* A is released while B, C, D are tracked and each cancels its
\* predecessor: D clears C, the cleared C clears nothing, B stays
C13_Witness ==
    /\ PassMade
    /\ table = TableChain
    /\ lastEv.keycode = KC_A
    /\ buffer_keyreports = << KC_B, KC_C, KC_D >>
    /\ buffer_keyreports_temp = << KC_B, KC_NO, KC_D >>

\* C13 as claimed: the entry equal to unpress is cleared wherever it occurs
\* at or before position j (the value a position holds when it is visited
\* is the value it has after the scan, since a visit changes only earlier
\* positions)
C13_ScanAtOrBefore ==
    PassMade =>
        /\ Len(buffer_keyreports_temp) = Len(buffer_keyreports)
        /\ \A j \in 1..Len(buffer_keyreports) : \A p \in 1..j :
              (/\ buffer_keyreports_temp[j] = buffer_keyreports[j]
               /\ Cancels(buffer_keyreports[j], buffer_keyreports[p]))
                  => buffer_keyreports_temp[p] = KC_NO
        /\ \A p \in 1..Len(buffer_keyreports) :
              buffer_keyreports_temp[p] # buffer_keyreports[p] =>
                  /\ buffer_keyreports_temp[p] = KC_NO
                  /\ \E j \in p..Len(buffer_keyreports) :
                        Cancels(buffer_keyreports[j], buffer_keyreports[p])

(***************************************************************************)
(* C14 (as amended).  A tracked key that is suppressed (physically held,   *)
(* in the Hold Buffer, not held at the host) and stays physically held is  *)
(* registered again only by the reconciliation pass of a release event,    *)
(* whichever key is released, and only if every Hold Buffer entry that     *)
(* follows it (was pressed later) and cancels it is itself cleared in that *)
(* pass.  No press and no mode operation registers it.                     *)
(***************************************************************************)
C14_RecoveryOnlyInPass ==
    [][ (pc = "idle" /\ pc' = "handled")
        => \A k \in BufferSet :
              (/\ IsHeld(k) /\ k \notin report
               /\ \E i \in 1..Len(held') : held'[i] = k
               /\ k \in ReportAfter')
              => /\ ~lastEv'.pressed
                 /\ \E n \in 1..Len(actions') : actions'[n] = AddKey(k)
                 /\ Len(buffer_keyreports_temp') = Len(buffer_keyreports')
                 /\ \E p \in 1..Len(buffer_keyreports') :
                       /\ buffer_keyreports'[p] = k
                       /\ \A q \in (p + 1)..Len(buffer_keyreports') :
                             Cancels(buffer_keyreports'[q], k)
                                => buffer_keyreports_temp'[q] = KC_NO ]_vars

\* B, C, D are held, C cancels B and D cancels C: the release of A, which
\* cancels nothing, registers the suppressed B while C is still held
C14_Witness ==
    /\ PassMade
    /\ table = TableChain
    /\ lastEv.keycode = KC_A
    /\ held = << KC_B, KC_C, KC_D >>
    /\ buffer_keyreports = << KC_B, KC_C, KC_D >>
    /\ actions = << AddKey(KC_B), DelKey(KC_C), AddKey(KC_D) >>
    /\ report = { KC_A, KC_B, KC_D }

\* C14 as claimed: registered again only by the release of a key that
\* cancels it, and only if no other key that is still held cancels it
C14_RecoveryTiming ==
    [][ (/\ pc = "idle" /\ pc' = "handled" /\ BothModesOn /\ ~hook_overridden)
        => \A k \in BufferSet :
              (/\ IsHeld(k) /\ k \notin report
               /\ \E i \in 1..Len(held') : held'[i] = k
               /\ k \in ReportAfter')
              => /\ ~lastEv'.pressed
                 /\ Cancels(lastEv'.keycode, k)
                 /\ \A i \in 1..Len(held') :
                        held'[i] # k => ~Cancels(held'[i], k) ]_vars

(***************************************************************************)
(* C15.  A press that passes the admission filter emits del_key(unpress)   *)
(* once for every table pair whose press field is the pressed keycode, in  *)
(* table order, duplicates and several targets included, whether or not    *)
(* unpress is physically held; it emits no add_key and nothing for the     *)
(* other pairs.                                                            *)
(***************************************************************************)
C15_PressPath ==
    AdmittedPress =>
        LET match == { i \in 1..Len(table) : table[i].press = lastEv.keycode }
        IN  /\ Len(actions) = Cardinality(match)
            /\ \A i \in match :
                  actions[Cardinality({ m \in match : m <= i })]
                      = DelKey(table[i].unpress)

\* C is pressed with the table (B,A),(C,B),(C,A),(C,B) while A is not held
C15_Witness ==
    /\ AdmittedPress
    /\ table = TableChainDup
    /\ lastEv.keycode = KC_C
    /\ ~IsHeld(KC_A) /\ IsHeld(KC_B)
    /\ actions = << DelKey(KC_B), DelKey(KC_A), DelKey(KC_B) >>

C17_RecoveryGating ==
    [][ (pc = "idle" /\ pc' = "handled")
        => /\ ~BothModesOn
              => /\ buffer_keyreports' = buffer_keyreports
                 /\ ~lastEv'.pressed => actions' = << >>
           /\ (BothModesOn /\ Len(buffer_keyreports') = 0)
              => actions' = << >> ]_vars

\* recovery has been switched off while two keys were tracked, and one of
\* them is released
C17_Witness ==
    /\ AdmittedRelease
    /\ ~keymap_config.key_cancellation_recovery_enable
    /\ lastEv.keycode \in BufferSet
    /\ Len(buffer_keyreports) >= 2
    /\ actions = << >>

(***************************************************************************)
(* C18.  In one reconciliation pass every Hold Buffer position yields      *)
(* exactly one synthetic action, in index order: del_key of the buffer's   *)
(* keycode where the snapshot was cleared to 0, add_key of it where the    *)
(* snapshot still holds it; the keycode just released is the target of no  *)
(* add_key; the Hold Buffer after the pass is the buffer before the event  *)
(* without the released keycode.                                           *)
(***************************************************************************)
C18_ReleaseCompare ==
    [][ (/\ pc = "idle" /\ pc' = "handled"
         /\ BothModesOn
         /\ ~lastEv'.pressed /\ lastEv'.allow
         /\ lastEv'.keycode \in KC_A..KC_EXSEL
         /\ Len(buffer_keyreports') > 0)
        => /\ Len(actions') = Len(buffer_keyreports')
           /\ Len(buffer_keyreports_temp') = Len(buffer_keyreports')
           /\ \A i \in 1..Len(buffer_keyreports') :
                 /\ buffer_keyreports_temp'[i] \in { KC_NO, buffer_keyreports'[i] }
                 /\ actions'[i] =
                       IF buffer_keyreports_temp'[i] = KC_NO
                       THEN DelKey(buffer_keyreports'[i])
                       ELSE AddKey(buffer_keyreports'[i])
           /\ \A n \in 1..Len(actions') : actions'[n] # AddKey(lastEv'.keycode)
           /\ LET k == lastEv'.keycode
              IN  buffer_keyreports' = SelectSeq(buffer_keyreports, LAMBDA x : x # k) ]_vars

\* C is released while A, then B, are tracked and cancel each other
C18_Witness ==
    /\ PassMade
    /\ lastEv.keycode = KC_C
    /\ Cancels(KC_B, KC_A)
    /\ buffer_keyreports = << KC_A, KC_B >>
    /\ buffer_keyreports_temp = << KC_NO, KC_B >>
    /\ actions = << DelKey(KC_A), AddKey(KC_B) >>

(***************************************************************************)
(* C19.  With a symmetric table without self-pair, cancellation enabled    *)
(* (recovery on or off), the mode flags changed only while no key is held, *)
(* the hook allowing and no more press-list keys held than the Hold Buffer *)
(* takes: after every key event the host's held-key set does not contain   *)
(* both keys of a table pair; and of two held keys that cancel each other  *)
(* the reconciliation pass registers the one pressed later, and releases   *)
(* the other, unless a key pressed still later and held cancels the later  *)
(* one.                                                                    *)
(***************************************************************************)
C19_MutualPairExclusion ==
    (/\ \A i \in 1..Len(table) :
            /\ table[i].press # table[i].unpress
            /\ Cancels(table[i].unpress, table[i].press)
     /\ keymap_config.key_cancellation_enable
     /\ ~hook_overridden
     /\ Cardinality(PressFields) <= KEYREPORT_BUFFER_SIZE)
    => /\ \A i \in 1..Len(table) :
              ~(table[i].press \in ReportAfter /\ table[i].unpress \in ReportAfter)
       /\ PassMade =>
             \A p, q \in 1..Len(held) :
                (/\ p < q
                 /\ Cancels(held[q], held[p])
                 /\ \A r \in (q + 1)..Len(held) : ~Cancels(held[r], held[q]))
                => /\ AddKey(held[q]) \in ActionSet
                   /\ AddKey(held[p]) \notin ActionSet
                   /\ DelKey(held[p]) \in ActionSet

\* A, B, C held in this order, A and B opposite, B and C opposite; D, the
\* opposite of C, is released: C is registered, B is not, A is
C19_Witness ==
    /\ PassMade
    /\ table = TablePath
    /\ lastEv.keycode = KC_D
    /\ held = << KC_A, KC_B, KC_C >>
    /\ buffer_keyreports = << KC_A, KC_B, KC_C >>
    /\ actions = << AddKey(KC_A), DelKey(KC_B), AddKey(KC_C) >>
    /\ ReportAfter = { KC_A, KC_C }

(***************************************************************************)
(* C20.  After any sequence of turbo-key presses and releases and of       *)
(* deferred callbacks, defer_exec failing included: whenever turbo click   *)
(* is inactive, the click key is not registered (click_registered is       *)
(* false, the host does not hold it) and no callback is scheduled          *)
(* (click_token is invalid, the executor holds no token); the register and *)
(* unregister calls alternate; process_mouse_turbo_click returns false for *)
(* the turbo keycode on both edges and true for every other keycode.       *)
(***************************************************************************)
C20_TurboConsistency ==
    /\ ~turbo_enabled =>
          /\ ~click_registered
          /\ ~click_host
          /\ click_token = INVALID_DEFERRED_TOKEN
          /\ deferred = {}
    /\ \A n \in 1..(Len(click_log) - 1) : click_log[n] # click_log[n + 1]
    /\ turbo_ev # NoTurboEvent =>
          (turbo_ret = (turbo_ev.keycode # TURBO_CLICK_KEYCODE))

====
